---- MODULE Spec2Model ----
(***************************************************************************)
(* Model of udplogger.c: the UDP line logger's session registry, line      *)
(* reassembly, log writer, daily rotation, memory reclaim and event loop.  *)
(*                                                                         *)
(* Bytes are small integers (NL = 10 is '\n').  Times are seconds since    *)
(* the epoch on a scaled calendar (SecsPerDay, DaysPerMonth,               *)
(* MonthsPerYear).  Formatted strings are tuples of the numbers printed.   *)
(* The log files are one sequence of records in write order, each record   *)
(* carrying the handle (file name) it was written to.                      *)
(***************************************************************************)
EXTENDS Integers, Sequences, FiniteSets, TLC

\* ---------------------------------------------------------------- bounds
MaxTime == 3          \* the wall clock stops advancing here
MaxDatagrams == 3     \* datagrams received in one behaviour
MaxDgLen == 2         \* longest datagram
SecsPerDay == 2       \* scaled calendar
DaysPerMonth == 2
MonthsPerYear == 2

\* ------------------------------------------- configuration (scaled down)
max_clients == 2
wbuf_size == 2
wait_timeout == 2

NL == 10
Bytes == {97, NL}
NULL == <<>>

\* Sender addresses: struct sockaddr_in, port in network byte order.
\* Senders are numbered in the order of their first datagram.
AddrSeq == << [sin_addr |-> 1, sin_port |-> 1],
              [sin_addr |-> 1, sin_port |-> 2],
              [sin_addr |-> 2, sin_port |-> 1] >>

Addrs == { AddrSeq[k] : k \in 1..Len(AddrSeq) }

\* Datagram payloads: recvfrom() results with 0 < len <= MaxDgLen.
RECURSIVE SeqsOfLen(_)
SeqsOfLen(n) ==
    IF n = 0 THEN { <<>> }
    ELSE { Append(s, b) : s \in SeqsOfLen(n - 1), b \in Bytes }

Payloads == UNION { SeqsOfLen(n) : n \in 1..MaxDgLen }

VARIABLES
    clients,                \* the array clients[0..num_clients-1]
    try_drop_memory_usage,  \* the reclaim hint flag
    log_fp,                 \* name of the file the handle is open on, or NULL
    last_tm,                \* date of the previous formatting ("date marker")
    last_time,              \* write_logfile's static last_time
    stamp,                  \* write_logfile's static stamp[] text
    log,                    \* everything written, in order
    clock,                  \* time(NULL)
    now,                    \* do_main's local now
    pc,                     \* "waiting" (in poll), "draining", "aborted"
    addr,                   \* do_main's addr: sender of the last datagram
    poll_timeout,           \* the timeout the loop gives poll(), in ms
    fs_ok,                  \* environment: does fopen() succeed right now
    nrecv,                  \* datagrams received so far
    nsenders,               \* history: distinct senders seen so far
    admitted,               \* history: bytes of admitted datagrams, per sender
    open_failed,            \* history: has any fopen() of a rotation failed
    arrival                 \* history: per sender, when each pending byte came

vars == << clients, try_drop_memory_usage, log_fp, last_tm, last_time, stamp,
           log, clock, now, pc, addr, poll_timeout, fs_ok, nrecv, nsenders,
           admitted, open_failed, arrival >>

\* ----------------------------------------------------- pure conversions

\* htons(): 16-bit byte swap (little-endian host).
htons(p) == (p % 256) * 256 + (p \div 256)

\* find_client's "%s:%u " rendering of the sender.
AddrStr(a) == << a.sin_addr, htons(a.sin_port) >>

\* localtime(): broken-down local time; tm_sec stands for hour:min:sec.
\* It does not fail for the times of the model (the "if (!tm)" fallback to
\* last_tm is for a time_t no calendar year can hold).
Localtime(t) ==
    LET days == t \div SecsPerDay
    IN  [ tm_year |-> 70 + (days \div (DaysPerMonth * MonthsPerYear)),
          tm_mon  |-> (days \div DaysPerMonth) % MonthsPerYear,
          tm_mday |-> 1 + (days % DaysPerMonth),
          tm_sec  |-> t % SecsPerDay ]

\* "%04u-%02u-%02u %02u:%02u:%02u "
FormatStamp(tm) ==
    << tm.tm_year + 1900, tm.tm_mon + 1, tm.tm_mday, tm.tm_sec >>

\* "%04u-%02u-%02u.log"
FileName(tm) == << tm.tm_year + 1900, tm.tm_mon + 1, tm.tm_mday >>

\* static struct tm last_tm = { .tm_year = 70, .tm_mday = 1 };
InitLastTm == [ tm_year |-> 70, tm_mon |-> 0, tm_mday |-> 1, tm_sec |-> 0 ]

\* memchr(buffer, '\n', avail): 1-based position of the first newline, 0 if none.
RECURSIVE memchr(_, _)
memchr(buffer, from) ==
    IF from > Len(buffer) THEN 0
    ELSE IF buffer[from] = NL THEN from
    ELSE memchr(buffer, from + 1)

\* The bytes of buffer after its first n bytes (buffer += len).
Skip(buffer, n) == SubSeq(buffer, n + 1, Len(buffer))

\* ------------------------------------------------------- switch_logfile
\* fopen(filename, "a"): the new handle, or NULL when the open fails.
fopen(tm, ok) == IF ok THEN FileName(tm) ELSE NULL

\* Variant: the old handle is not put back when the open fails.
switch_logfile_no_fallback(fp, tm, ok) == fopen(tm, ok)

\* The handle log_fp ends up with, given the old handle fp.
switch_logfile(fp, tm, ok) ==
    LET opened == fopen(tm, ok)
    IN  IF fp = NULL THEN opened
        ELSE IF opened # NULL THEN opened   \* fclose(fp)
        ELSE fp                             \* continue using old one

\* ---------------------------------------------------------- write_logfile
\* One record of output: "<stamp><addr_str><data>" written to handle file.
\* time and forced are history fields: the timestamp the record was written
\* for and whether data ends with the newline a forced write appends.
Record(file, st, c, data, forced) ==
    [ file |-> file, stamp |-> st, addr_str |-> c.addr_str, data |-> data,
      time |-> c.stamp, forced |-> forced ]

\* Variant: the cached text is kept for the whole day.
CacheMissPerDay(last, t) == last \div SecsPerDay # t \div SecsPerDay

\* The test of the timestamp cache (line 81).
CacheMiss(last, t) == last # t

\* Variant: the day of the month is not compared.
DayChangedNoMday(tm, last) ==
    \/ tm.tm_mon # last.tm_mon
    \/ tm.tm_year # last.tm_year

\* The test that decides a rotation (lines 93-95).
DayChanged(tm, last) ==
    \/ tm.tm_mday # last.tm_mday
    \/ tm.tm_mon # last.tm_mon
    \/ tm.tm_year # last.tm_year

\* last_tm after the rotation test: "last_tm = *tm" comes before
\* switch_logfile(tm) and does not look at what the open did (line 96).
NextLastTmIfOpened(rotate, tm, last, ok) == IF rotate /\ ok THEN tm ELSE last

NextLastTm(rotate, tm, last, ok) == IF rotate THEN tm ELSE last

\* Variant: only the first completed line is written.
CompletedLinesOnce(buffer) ==
    LET cp == memchr(buffer, 1)
    IN  IF cp = 0 THEN <<>> ELSE << SubSeq(buffer, 1, cp) >>

\* The "while (1)" loop writing completed lines: the payloads written.
RECURSIVE CompletedLines(_)
CompletedLines(buffer) ==
    LET cp == memchr(buffer, 1)
    IN  IF cp = 0 THEN <<>>
        ELSE << SubSeq(buffer, 1, cp) >> \o CompletedLines(Skip(buffer, cp))

\* Variant: the memmove is missing, the buffer keeps its first bytes.
RemainderNoMove(buffer) ==
    LET cp == memchr(buffer, 1)
    IN  IF cp = 0 THEN buffer
        ELSE SubSeq(buffer, 1, Len(buffer) - cp)

\* What is left in the buffer after that loop.
RECURSIVE Remainder(_)
Remainder(buffer) ==
    LET cp == memchr(buffer, 1)
    IN  IF cp = 0 THEN buffer ELSE Remainder(Skip(buffer, cp))

\* G is the record of the globals write_logfile reads and writes; i is the
\* (1-based) index of the client, ok the outcome of an fopen() if one is made.
\* switch_logfile's "try_drop_memory_usage = 1", made when there was an old
\* handle, is the update of that flag here.
write_logfile(G, i, forced, ok) ==
    LET ptr      == G.clients[i]
        now_time == ptr.stamp
        fresh    == CacheMiss(G.last_time, now_time)
        tm       == Localtime(now_time)
        rotate   == fresh /\ DayChanged(tm, G.last_tm)
        stamp1   == IF fresh THEN FormatStamp(tm) ELSE G.stamp
        fp1      == IF rotate THEN switch_logfile(G.log_fp, tm, ok)
                    ELSE G.log_fp
        lines    == CompletedLines(ptr.buffer)
        rest     == Remainder(ptr.buffer)
        written  == [ k \in 1..Len(lines) |->
                        Record(fp1, stamp1, ptr, lines[k], FALSE) ]
        partial  == IF forced /\ Len(rest) # 0
                    THEN << Record(fp1, stamp1, ptr, Append(rest, NL), TRUE) >>
                    ELSE <<>>
        avail1   == IF forced THEN <<>> ELSE rest
    IN  [ G EXCEPT
            !.clients[i].buffer = avail1,
            !.stamp = stamp1,
            !.last_time = now_time,
            !.last_tm = NextLastTm(rotate, tm, @, ok),
            !.log_fp = fp1,
            !.try_drop_memory_usage = IF rotate /\ G.log_fp # NULL THEN TRUE ELSE @,
            !.open_failed = @ \/ (rotate /\ ~ok),
            !.log = @ \o written \o partial ]

\* ------------------------------------------------------ drop_memory_usage
\* The "while (i < num_clients)" loop (i is 1-based here): clients with data
\* are kept (their buffers shrunk), the others are freed and the array is
\* closed up over them.
\* Variant: every client is freed, with or without data.
CompactLoopAll(cl, i) == SubSeq(cl, 1, i - 1)

\* Variant: the index moves on after a client is freed.
RECURSIVE CompactLoopSkip(_, _)
CompactLoopSkip(cl, i) ==
    IF i > Len(cl) THEN cl
    ELSE IF Len(cl[i].buffer) # 0 THEN CompactLoopSkip(cl, i + 1)
    ELSE CompactLoopSkip(SubSeq(cl, 1, i - 1) \o Skip(cl, i), i + 1)

\* Variant: the test of avail is inverted.
RECURSIVE CompactLoopInverted(_, _)
CompactLoopInverted(cl, i) ==
    IF i > Len(cl) THEN cl
    ELSE IF Len(cl[i].buffer) = 0 THEN CompactLoopInverted(cl, i + 1)
    ELSE CompactLoopInverted(SubSeq(cl, 1, i - 1) \o Skip(cl, i), i)

RECURSIVE CompactLoop(_, _)
CompactLoop(cl, i) ==
    IF i > Len(cl) THEN cl
    ELSE IF Len(cl[i].buffer) # 0 THEN CompactLoop(cl, i + 1)
    ELSE CompactLoop(SubSeq(cl, 1, i - 1) \o Skip(cl, i), i)

\* Variant: the pass is made whether or not the flag is set.
drop_memory_usage_ungated(G) ==
    [ G EXCEPT !.try_drop_memory_usage = FALSE,
               !.clients = CompactLoop(@, 1) ]

drop_memory_usage(G) ==
    IF ~G.try_drop_memory_usage THEN G
    ELSE [ G EXCEPT !.try_drop_memory_usage = FALSE,
                    !.clients = CompactLoop(@, 1) ]

\* Variant: the first entry of the array is never compared.
RECURSIVE LookupSkipFirst(_, _, _)
LookupSkipFirst(cl, a, i) ==
    IF i > Len(cl) THEN i
    ELSE IF i > 1 /\ cl[i].addr = a THEN i
    ELSE LookupSkipFirst(cl, a, i + 1)

\* ------------------------------------------------------------ find_client
\* The lookup loop: the 1-based index of the client with address a; when
\* there is none, Len(cl) + 1 (the C loop ends with i = num_clients).
RECURSIVE Lookup(_, _, _)
Lookup(cl, a, i) ==
    IF i > Len(cl) THEN i
    ELSE IF cl[i].addr = a THEN i
    ELSE Lookup(cl, a, i + 1)

\* Variant: off by one.
AtCapacityOffByOne(i, G) == i > max_clients

\* The test "i >= max_clients" made before and again after the reclaim;
\* i is the C loop index (0-based), which the reclaim does not update.
AtCapacity(i, G) == i >= max_clients

\* memset(ptr, 0, sizeof(*ptr)); ptr->addr = *addr; snprintf(ptr->addr_str..)
NewClient(a) ==
    [ addr |-> a, buffer |-> <<>>, addr_str |-> AddrStr(a), stamp |-> 0 ]

\* Returns [G, ptr]: the globals afterwards and the 1-based index of the
\* client, 0 for NULL.  grow_ok is the outcome of realloc(clients, ...).
find_client(G, a, grow_ok) ==
    LET pos == Lookup(G.clients, a, 1)
        i   == pos - 1
        G1  == drop_memory_usage([ G EXCEPT !.try_drop_memory_usage = TRUE ])
    IN  IF pos <= Len(G.clients) THEN [ G |-> G, ptr |-> pos ]
        ELSE IF AtCapacity(i, G)
        THEN IF AtCapacity(i, G1) THEN [ G |-> G1, ptr |-> 0 ]
             ELSE IF ~grow_ok THEN [ G |-> G1, ptr |-> 0 ]
             ELSE [ G   |-> [ G1 EXCEPT !.clients = Append(@, NewClient(a)) ],
                    ptr |-> Len(G1.clients) + 1 ]
        ELSE IF ~grow_ok THEN [ G |-> G, ptr |-> 0 ]
        ELSE [ G   |-> [ G EXCEPT !.clients = Append(@, NewClient(a)) ],
               ptr |-> Len(G.clients) + 1 ]

\* ---------------------------------------------------- flush_all_and_abort
\* "[aborted due to memory allocation failure]\n" (abbreviated to "[]\n").
AbortMarker == << 91, 93, NL >>

\* Variant: the partial lines are not forced out.
FlushLoopUnforced(G, i, ok) ==
    IF i > Len(G.clients) THEN G
    ELSE IF Len(G.clients[i].buffer) # 0
    THEN write_logfile(G, i, FALSE, ok)
    ELSE G

RECURSIVE FlushLoop(_, _, _)
FlushLoop(G, i, ok) ==
    IF i > Len(G.clients) THEN G
    ELSE IF Len(G.clients[i].buffer) # 0
    THEN FlushLoop(write_logfile(G, i, TRUE, ok), i + 1, ok)
    ELSE FlushLoop(G, i + 1, ok)

flush_all_and_abort(G, ok) ==
    LET G1 == FlushLoop(G, 1, ok)
    IN  [ G1 EXCEPT !.log = Append(@,
            [ file |-> G1.log_fp, stamp |-> <<>>, addr_str |-> <<>>,
              data |-> AbortMarker, time |-> 0, forced |-> FALSE ]) ]

\* ------------------------------------------------------------- do_main
\* Variant: strictly older than the timeout.
StaleStrict(c, t) == Len(c.buffer) # 0 /\ t - c.stamp > wait_timeout

\* The timeout test of the scan (lines 236-237).
Stale(c, t) == Len(c.buffer) # 0 /\ t - c.stamp >= wait_timeout

\* "Check for timeout": the for loop over the clients.
RECURSIVE TimeoutScan(_, _, _, _)
TimeoutScan(G, i, t, ok) ==
    IF i > Len(G.clients) THEN G
    ELSE IF Stale(G.clients[i], t)
    THEN TimeoutScan(write_logfile(G, i, TRUE, ok), i + 1, t, ok)
    ELSE TimeoutScan(G, i + 1, t, ok)

\* Variant: strictly longer than the limit.
TooLongStrict(c) == Len(c.buffer) > wbuf_size

\* The test of the oversized flush (line 264).
TooLong(c) == Len(c.buffer) >= wbuf_size

\* Variant: the last byte of the datagram is not looked at.
HasNewlineShort(data) == memchr(SubSeq(data, 1, Len(data) - 1), 1) # 0

\* The test "at least one line completed" (line 261).
HasNewline(data) == memchr(data, 1) # 0

\* Lines 250-265 for the client at index p: stamp, append, write.
HandleData(G, p, data, t, ok) ==
    LET G1 == IF Len(G.clients[p].buffer) = 0
              THEN [ G EXCEPT !.clients[p].stamp = t ] ELSE G
        G2 == [ G1 EXCEPT !.clients[p].buffer = @ \o data ]
        G3 == IF HasNewline(data) THEN write_logfile(G2, p, FALSE, ok) ELSE G2
    IN  IF TooLong(G3.clients[p]) THEN write_logfile(G3, p, TRUE, ok) ELSE G3

\* Line 251-256 when realloc() fails: the stamp is already saved.
HandleNoMemory(G, p, t, ok) ==
    LET G1 == IF Len(G.clients[p].buffer) = 0
              THEN [ G EXCEPT !.clients[p].stamp = t ] ELSE G
    IN  flush_all_and_abort(G1, ok)

\* Variant: the wait never has a timeout.
PollTimeoutUnbounded(cl) == -1

\* Variant: only the first client is looked at.
PollTimeoutFirstOnly(cl) ==
    IF Len(cl) > 0 /\ Len(cl[1].buffer) # 0 THEN 1000 ELSE -1

\* "Don't wait forever if checking for timeout" (lines 227-232): the
\* timeout given to poll(), -1 to wait without one.
PollTimeout(cl) ==
    IF \E i \in 1..Len(cl) : Len(cl[i].buffer) # 0 THEN 1000 ELSE -1

\* ------------------------------------------------------- state machine
\* The pending bytes of sender a among the clients cl.
PendingIn(cl, a) ==
    IF \E i \in 1..Len(cl) : cl[i].addr = a
    THEN cl[CHOOSE i \in 1..Len(cl) : cl[i].addr = a].buffer
    ELSE <<>>

\* The last n elements of s.
LastN(s, n) == SubSeq(s, Len(s) - n + 1, Len(s))

\* The arrival times of the pending bytes once the clients are cl, when
\* sender a has just delivered n bytes at time t (n = 0: no delivery): the
\* pending bytes are always the last ones delivered.
NextArrival(cl, a, n, t) ==
    [ b \in Addrs |->
        LET all == IF b = a THEN arrival[b] \o [ k \in 1..n |-> t ]
                   ELSE arrival[b]
        IN  LastN(all, Len(PendingIn(cl, b))) ]

Globals ==
    [ clients |-> clients, try_drop_memory_usage |-> try_drop_memory_usage,
      log_fp |-> log_fp, last_tm |-> last_tm, last_time |-> last_time,
      stamp |-> stamp, log |-> log, open_failed |-> open_failed ]

SetGlobals(G) ==
    /\ clients' = G.clients
    /\ try_drop_memory_usage' = G.try_drop_memory_usage
    /\ log_fp' = G.log_fp
    /\ last_tm' = G.last_tm
    /\ last_time' = G.last_time
    /\ stamp' = G.stamp
    /\ log' = G.log
    /\ open_failed' = G.open_failed

\* The state when do_main is entered: do_init has opened today's file.
Init ==
    /\ clock = 1
    /\ clients = <<>>
    /\ try_drop_memory_usage = FALSE
    /\ log_fp = switch_logfile(NULL, Localtime(clock), TRUE)
    /\ last_tm = InitLastTm
    /\ last_time = 0
    /\ stamp = <<>>
    /\ log = <<>>
    /\ now = clock
    /\ pc = "waiting"
    /\ addr = CHOOSE a \in Addrs : TRUE
    /\ poll_timeout = PollTimeout(clients)
    /\ fs_ok = TRUE
    /\ nrecv = 0
    /\ nsenders = 0
    /\ admitted = [ a \in Addrs |-> <<>> ]
    /\ open_failed = FALSE
    /\ arrival = [ a \in Addrs |-> <<>> ]

\* The senders seen so far, and those a datagram can come from next: a seen
\* one or the first unseen one (the program treats addresses alike).
Senders(n) == { AddrSeq[k] : k \in 1..n }
NextSenders(n) == { AddrSeq[k] : k \in 1..(IF n < Len(AddrSeq) THEN n + 1 ELSE n) }

\* Environment: a second passes.
Tick ==
    /\ clock < MaxTime
    /\ clock' = clock + 1
    /\ UNCHANGED << clients, try_drop_memory_usage, log_fp, last_tm, last_time,
                    stamp, log, now, pc, addr, poll_timeout, fs_ok, nrecv,
                    nsenders, admitted, open_failed, arrival >>

\* Environment: the log directory becomes unwritable, or writable again.
FsChange ==
    /\ fs_ok' = ~fs_ok
    /\ UNCHANGED << clients, try_drop_memory_usage, log_fp, last_tm, last_time,
                    stamp, log, clock, now, pc, addr, poll_timeout, nrecv,
                    nsenders, admitted, open_failed, arrival >>

\* poll() returns; now = time(NULL); the timeout scan runs.
PollReturn ==
    /\ pc = "waiting"
    /\ now' = clock
    /\ SetGlobals(TimeoutScan(Globals, 1, clock, fs_ok))
    /\ arrival' = NextArrival(clients', addr, 0, clock)
    /\ pc' = "draining"
    /\ UNCHANGED << clock, addr, poll_timeout, fs_ok, nrecv, nsenders, admitted >>

\* One iteration of the receive loop with a datagram data from sender a.
RecvDatagram(a, data, grow_ok, alloc_ok) ==
    /\ pc = "draining"
    /\ now = clock
    /\ nrecv < MaxDatagrams
    /\ nrecv' = nrecv + 1
    /\ addr' = a
    /\ nsenders' = IF a \in Senders(nsenders) THEN nsenders ELSE nsenders + 1
    /\ LET F == find_client(Globals, a, grow_ok)
       IN  IF F.ptr = 0
           THEN /\ SetGlobals(F.G)
                /\ UNCHANGED << pc, admitted >>
           ELSE /\ admitted' = [ admitted EXCEPT ![a] = @ \o data ]
                /\ IF alloc_ok
                   THEN /\ SetGlobals(HandleData(F.G, F.ptr, data, now, fs_ok))
                        /\ UNCHANGED pc
                   ELSE /\ SetGlobals(HandleNoMemory(F.G, F.ptr, now, fs_ok))
                        /\ pc' = "aborted"
    /\ arrival' = NextArrival(clients', a, Len(admitted'[a]) - Len(admitted[a]), now)
    /\ UNCHANGED << clock, now, poll_timeout, fs_ok >>

\* The receive loop ends (nothing to receive, or the second is over):
\* drop_memory_usage(), then the top of the loop up to the call of poll().
DrainEnd ==
    /\ pc = "draining"
    /\ SetGlobals(drop_memory_usage(Globals))
    /\ poll_timeout' = PollTimeout(clients')
    /\ arrival' = NextArrival(clients', addr, 0, now)
    /\ pc' = "waiting"
    /\ UNCHANGED << clock, now, addr, fs_ok, nrecv, nsenders, admitted >>

Next ==
    \/ Tick
    \/ FsChange
    \/ PollReturn
    \/ \E a \in NextSenders(nsenders), data \in Payloads, grow_ok \in BOOLEAN, alloc_ok \in BOOLEAN :
          RecvDatagram(a, data, grow_ok, alloc_ok)
    \/ DrainEnd

Spec == Init /\ [][Next]_vars

\* The scheduling the code guarantees, for the claims about progress: time
\* passes; poll() with the 1000 ms timeout returns; the receive loop ends
\* (it is left when the second is over or nothing is there to receive). A
\* poll() without timeout returns only if a datagram comes: no fairness.
FairSpec ==
    /\ Spec
    /\ WF_vars(Tick)
    /\ WF_vars(PollReturn /\ poll_timeout = 1000)
    /\ WF_vars(DrainEnd)

\* ------------------------------------------------- notions of the claims
Identities(cl) == { cl[i].addr : i \in 1..Len(cl) }

\* The pending bytes of sender a: empty when it has no session.
Pending(a) ==
    IF a \in Identities(clients)
    THEN clients[CHOOSE i \in 1..Len(clients) : clients[i].addr = a].buffer
    ELSE <<>>

IsMarker(r) == r.addr_str = <<>>

\* The records written for sender a, in write order.
RecordsOf(a) == SelectSeq(log, LAMBDA r : r.addr_str = AddrStr(a))

\* The bytes of the sender a record carries: a forced record's data without
\* the newline appended to it.
Payload(r) == IF r.forced THEN SubSeq(r.data, 1, Len(r.data) - 1) ELSE r.data

RECURSIVE Flatten(_)
Flatten(ss) == IF ss = <<>> THEN <<>> ELSE Head(ss) \o Flatten(Tail(ss))

PayloadsOf(a) == LET rs == RecordsOf(a) IN [ k \in 1..Len(rs) |-> Payload(rs[k]) ]

CountNL(bs) == Cardinality({ k \in 1..Len(bs) : bs[k] = NL })

SameDate(t1, t2) == FileName(t1) = FileName(t2)

DateOf(t) == FileName(Localtime(t))

\* C1: while the program runs (no fatal allocation failure), for every sender
\* the payloads of its records, in write order, followed by its pending
\* bytes, are exactly the bytes of its admitted datagrams in delivery order.
C1_NoLossNoReorder ==
    pc # "aborted" =>
        \A a \in Addrs : Flatten(PayloadsOf(a)) \o Pending(a) = admitted[a]

\* A sender with a completed-line record, a forced record and pending bytes.
C1_Witness ==
    /\ pc # "aborted"
    /\ \E a \in Addrs :
          /\ Pending(a) # <<>>
          /\ \E k \in 1..Len(RecordsOf(a)) : RecordsOf(a)[k].forced
          /\ \E k \in 1..Len(RecordsOf(a)) : ~RecordsOf(a)[k].forced

\* C2: for a sender none of whose data was force-flushed, the number of
\* records equals the number of newlines admitted, every record ends with
\* its only newline, and records plus pending give back the input.
C2_LineRoundTrip ==
    pc # "aborted" =>
        \A a \in Addrs :
            LET rs == RecordsOf(a) IN
            (\A k \in 1..Len(rs) : ~rs[k].forced) =>
                /\ Len(rs) = CountNL(admitted[a])
                /\ \A k \in 1..Len(rs) :
                      /\ memchr(rs[k].data, 1) = Len(rs[k].data)
                      /\ Len(rs[k].data) >= 1
                /\ Flatten([ k \in 1..Len(rs) |-> rs[k].data ]) \o Pending(a)
                      = admitted[a]

\* Two lines written and a remainder pending, nothing forced.
C2_Witness ==
    /\ pc # "aborted"
    /\ \E a \in Addrs :
          /\ Len(RecordsOf(a)) >= 2
          /\ \A k \in 1..Len(RecordsOf(a)) : ~RecordsOf(a)[k].forced
          /\ Pending(a) # <<>>

\* C3: the registry never holds more than max_clients sessions.
C3_Capacity == Len(clients) <= max_clients

\* The registry is full and more senders than it can hold have sent.
C3_Witness == Len(clients) = max_clients /\ nsenders > max_clients

\* A datagram is received in this step, from a sender without a session.
NewcomerStep ==
    /\ nrecv' = nrecv + 1
    /\ addr' \notin Identities(clients)

\* C4 as claimed: a newcomer arriving at capacity while some session has
\* empty pending gets a session, and its datagram is admitted.
C4_AdmissionAfterReclaim ==
    [][ ( /\ NewcomerStep
          /\ Len(clients) >= max_clients
          /\ \E i \in 1..Len(clients) : Len(clients[i].buffer) = 0 )
        => ( /\ addr' \in Identities(clients')
             /\ admitted'[addr'] # admitted[addr'] ) ]_vars

\* C5: a newcomer arriving while the registry is full of sessions with
\* pending data changes neither the registry, nor the log, nor the loop.
C5_RejectionAtCapacity ==
    [][ ( /\ NewcomerStep
          /\ Len(clients) = max_clients
          /\ \A i \in 1..Len(clients) : Len(clients[i].buffer) # 0 )
        => ( /\ clients' = clients
             /\ log' = log
             /\ admitted' = admitted
             /\ UNCHANGED << log_fp, last_tm, last_time, stamp, pc >> ) ]_vars

\* The last datagram came from a sender that has no session, and the
\* registry is full of sessions with pending data.
C5_Witness ==
    /\ nrecv > 0
    /\ Len(clients) = max_clients
    /\ \A i \in 1..Len(clients) : Len(clients[i].buffer) # 0
    /\ addr \notin Identities(clients)
    /\ admitted[addr] = <<>>

\* C6: no session ever holds wbuf_size or more pending bytes once a
\* datagram has been handled, and what a forced flush writes is one record:
\* its payload has no newline inside.
C6_OversizedBound ==
    /\ \A i \in 1..Len(clients) : Len(clients[i].buffer) < wbuf_size
    /\ \A k \in 1..Len(log) : log[k].forced => memchr(Payload(log[k]), 1) = 0

\* A forced record of wbuf_size or more payload bytes has been written.
C6_Witness ==
    \E k \in 1..Len(log) : log[k].forced /\ Len(Payload(log[k])) >= wbuf_size

\* The step from poll() to the receive loop, which makes the timeout scan.
ScanStep == pc = "waiting" /\ pc' = "draining"

NewRecords == SubSeq(log', Len(log) + 1, Len(log'))

\* C7: the scan writes, for each session with pending data at least
\* wait_timeout old, one record of all its pending bytes plus a newline and
\* empties it; it leaves every other session alone and writes nothing else.
C7_TimeoutFlush ==
    [][ ScanStep =>
        /\ Len(log') >= Len(log)
        /\ SubSeq(log', 1, Len(log)) = log
        /\ Len(clients') = Len(clients)
        /\ \A i \in 1..Len(clients) :
              LET c    == clients[i]
                  mine == SelectSeq(NewRecords, LAMBDA r : r.addr_str = c.addr_str)
              IN  IF Len(c.buffer) > 0 /\ now' - c.stamp >= wait_timeout
                  THEN /\ Len(mine) = 1
                       /\ mine[1].data = c.buffer \o << NL >>
                       /\ clients'[i] = [ c EXCEPT !.buffer = <<>> ]
                  ELSE /\ Len(mine) = 0
                       /\ clients'[i] = c
        /\ Len(NewRecords) =
              Cardinality({ i \in 1..Len(clients) :
                  Len(clients[i].buffer) > 0
                  /\ now' - clients[i].stamp >= wait_timeout }) ]_vars

\* Right after a scan: the last record is a flush of data that had waited
\* wait_timeout, and its session is empty but still registered.
C7_Witness ==
    /\ pc = "draining"
    /\ log # <<>>
    /\ LET r == log[Len(log)]
       IN  /\ r.forced
           /\ now - r.time >= wait_timeout
           /\ \E i \in 1..Len(clients) :
                 clients[i].addr_str = r.addr_str /\ clients[i].buffer = <<>>

\* C8: as long as no open has failed, every record is in the file named
\* for the date of its own timestamp, and after a write the open file and
\* the date marker are those of the record just written.
C8_RotationByDate ==
    ~open_failed =>
        /\ \A k \in 1..Len(log) :
              ~IsMarker(log[k]) => log[k].file = DateOf(log[k].time)
        /\ (log # <<>> /\ ~IsMarker(log[Len(log)])) =>
              /\ log_fp = DateOf(log[Len(log)].time)
              /\ SameDate(last_tm, Localtime(log[Len(log)].time))

\* A record of an earlier date written after a record of a later date.
C8_Witness ==
    /\ ~open_failed
    /\ \E j, k \in 1..Len(log) :
          /\ j < k
          /\ ~IsMarker(log[j]) /\ ~IsMarker(log[k])
          /\ log[j].file # log[k].file
          /\ log[j].time > log[k].time

\* A step whose first write is for a record of another date than the date
\* marker while fopen() fails: a rotation is attempted and fails.
FailedRotationStep ==
    /\ ~fs_ok
    /\ Len(log') > Len(log)
    /\ ~IsMarker(NewRecords[1])
    /\ DateOf(NewRecords[1].time) # FileName(last_tm)

\* The last record of rs that is a line of a sender (rs has one).
LastLine(rs) ==
    rs[CHOOSE k \in 1..Len(rs) :
          /\ ~IsMarker(rs[k])
          /\ \A j \in (k + 1)..Len(rs) : IsMarker(rs[j])]

C10_FailedRotationKeepsFile ==
    /\ [](log_fp # NULL)
    /\ [][ FailedRotationStep =>
             /\ log_fp' = log_fp
             /\ \A k \in 1..Len(NewRecords) : NewRecords[k].file = log_fp
             /\ (pc' = "aborted" => IsMarker(log'[Len(log')])) ]_vars

\* The record that asked for the rotation is in the file still open, which
\* is not the file of its date.
C10_Witness ==
    /\ open_failed
    /\ pc # "aborted"
    /\ log # <<>>
    /\ log[Len(log)].file = log_fp
    /\ log[Len(log)].file # DateOf(log[Len(log)].time)

\* The step in which the loop is left for exit(1).
AbortStep == pc # "aborted" /\ pc' = "aborted"

\* C11: when the allocation fails, every session with pending bytes gets
\* one forced record of all of them and is emptied, nothing else is written
\* but the marker, which comes last; afterwards the program does nothing.
C11_FatalAllocationFailure ==
    /\ [][ AbortStep =>
             /\ SubSeq(log', 1, Len(log)) = log
             /\ log'[Len(log')].data = AbortMarker
             /\ IsMarker(log'[Len(log')])
             /\ Len(NewRecords) = 1 +
                   Cardinality({ i \in 1..Len(clients) : Len(clients[i].buffer) # 0 })
             /\ \A i \in 1..Len(clients) :
                   LET c    == clients[i]
                       mine == SelectSeq(NewRecords,
                                         LAMBDA r : r.addr_str = c.addr_str)
                   IN  IF Len(c.buffer) # 0
                       THEN /\ Len(mine) = 1
                            /\ mine[1].forced
                            /\ mine[1].data = c.buffer \o << NL >>
                       ELSE Len(mine) = 0
             /\ \A i \in 1..Len(clients') : clients'[i].buffer = <<>> ]_vars
    /\ [][ pc = "aborted" =>
             UNCHANGED << clients, log, log_fp, pc, nrecv, admitted >> ]_vars

\* Aborted with two sessions flushed right before the marker.
C11_Witness ==
    /\ pc = "aborted"
    /\ Len(log) >= 3
    /\ IsMarker(log[Len(log)])
    /\ log[Len(log) - 1].forced
    /\ log[Len(log) - 2].forced
    /\ log[Len(log) - 1].addr_str # log[Len(log) - 2].addr_str

\* The step from the receive loop back to poll().
DrainEndStep == pc = "draining" /\ pc' = "waiting"

\* C12 as claimed: while the loop waits, no session has empty pending.
C12_NoEmptyWhileWaiting ==
    pc = "waiting" => \A i \in 1..Len(clients) : Len(clients[i].buffer) # 0

\* C12 amended: the call after a drain burst makes its pass only when the
\* flag is set; then no empty session is left, otherwise the registry is
\* left as it is.  The flag is clear whenever the loop waits.
C12_ReclaimWhenHinted ==
    /\ [](pc = "waiting" => ~try_drop_memory_usage)
    /\ [][ DrainEndStep =>
             IF try_drop_memory_usage
             THEN \A i \in 1..Len(clients') : Len(clients'[i].buffer) # 0
             ELSE clients' = clients ]_vars

\* Waiting after a pass hinted by a rotation: a sender that was admitted
\* has no session any more, and the registry was never full for a newcomer.
C12_Witness ==
    /\ pc = "waiting"
    /\ nsenders <= max_clients
    /\ \E a \in Addrs : admitted[a] # <<>> /\ a \notin Identities(clients)

\* The globals with the reclaim hint set.
SetHint(G) == [ G EXCEPT !.try_drop_memory_usage = TRUE ]

\* C13: a second call of drop_memory_usage right after a first changes
\* nothing, whether the first call made its pass or not, and also when the
\* hint is set again before the second call.
C13_ReclaimIdempotent ==
    LET once   == drop_memory_usage(Globals)
        hinted == drop_memory_usage(SetHint(Globals))
    IN  /\ drop_memory_usage(once) = once
        /\ drop_memory_usage(hinted) = hinted
        /\ drop_memory_usage(SetHint(hinted)) = hinted

\* The call at the end of the receive loop is about to make a pass that
\* frees one session and keeps another.
C13_Witness ==
    /\ pc = "draining"
    /\ try_drop_memory_usage
    /\ \E i \in 1..Len(clients) : Len(clients[i].buffer) = 0
    /\ \E i \in 1..Len(clients) : Len(clients[i].buffer) # 0

\* A step that makes a reclaim pass: the call after the receive loop with
\* the flag set, or the lookup of a newcomer at capacity.
ReclaimStep ==
    \/ DrainEndStep /\ try_drop_memory_usage
    \/ NewcomerStep /\ Len(clients) >= max_clients

\* C16: a reclaim pass leaves exactly the sessions with pending bytes, as
\* they were and in their order, and writes nothing.
C16_ReclaimFrame ==
    [][ ReclaimStep =>
          /\ clients' = SelectSeq(clients, LAMBDA c : Len(c.buffer) # 0)
          /\ log' = log
          /\ UNCHANGED << log_fp, last_tm, last_time, stamp >> ]_vars

\* After a pass: the first sender's session is gone, and the second
\* sender's session, with its pending bytes, is now the first.
C16_Witness ==
    /\ pc = "waiting"
    /\ Len(clients) = 1
    /\ clients[1].addr = AddrSeq[2]
    /\ Len(clients[1].buffer) # 0
    /\ admitted[AddrSeq[1]] # <<>>

\* C15: whenever the loop is in poll(), the wait is the bounded one
\* (1000 ms) exactly if some session has pending bytes, and the one without
\* timeout exactly if none has.
C15_WaitBound ==
    pc = "waiting" =>
        /\ poll_timeout \in { 1000, -1 }
        /\ poll_timeout = 1000 <=>
              \E i \in 1..Len(clients) : Len(clients[i].buffer) > 0
        /\ poll_timeout = -1 <=>
              \A i \in 1..Len(clients) : Len(clients[i].buffer) = 0

\* Waiting with a bounded wait because of the second session alone.
C15_Witness ==
    /\ pc = "waiting"
    /\ poll_timeout = 1000
    /\ Len(clients) = 2
    /\ Len(clients[1].buffer) = 0
    /\ Len(clients[2].buffer) > 0

\* C17 as claimed: the stamp of a session with pending bytes is the time
\* at which the first of these bytes was received.
C17_StampIsFirstByteTime ==
    \A i \in 1..Len(clients) :
        Len(clients[i].buffer) > 0 =>
            clients[i].stamp = arrival[clients[i].addr][1]

\* C18: every record carries the text a fresh formatting of its timestamp
\* gives, and the date marker is the date of the time the cache holds, so
\* that a test for rotation on a cache hit would find nothing to do.
C18_CacheNeverStale ==
    /\ \A k \in 1..Len(log) :
          ~IsMarker(log[k]) => log[k].stamp = FormatStamp(Localtime(log[k].time))
    /\ last_time # 0 => SameDate(last_tm, Localtime(last_time))
    /\ last_time # 0 => stamp = FormatStamp(Localtime(last_time))

\* Two sessions written one after the other with the same timestamp (a
\* cache hit), after a record of another second.
C18_Witness ==
    \E j, k \in 1..Len(log) :
        /\ j < k /\ k < Len(log)
        /\ log[j].time # log[k].time
        /\ log[k].time = log[k + 1].time
        /\ log[k].addr_str # log[k + 1].addr_str
        /\ ~IsMarker(log[k + 1])

\* C19: no two sessions of the registry have the same address.
C19_UniqueIdentity ==
    \A i, j \in 1..Len(clients) :
        clients[i].addr = clients[j].addr => i = j

\* The first sender's session was freed and made again: it now comes after
\* the second sender's.
C19_Witness ==
    /\ Len(clients) = 2
    /\ clients[1].addr = AddrSeq[2]
    /\ clients[2].addr = AddrSeq[1]

\* C20: no session's pending bytes contain a newline, and no forced record
\* has one inside its payload (a forced flush writes one record).
C20_NoPendingNewline ==
    /\ \A i \in 1..Len(clients) : memchr(clients[i].buffer, 1) = 0
    /\ \A k \in 1..Len(log) :
          log[k].forced => memchr(log[k].data, 1) = Len(log[k].data)

\* Pending bytes that are what a datagram had after its newline.
C20_Witness ==
    \E i \in 1..Len(clients) :
        /\ Len(clients[i].buffer) > 0
        /\ CountNL(admitted[clients[i].addr]) > 0
        /\ admitted[clients[i].addr][Len(admitted[clients[i].addr])] # NL

\* The stamp of sender a's session (0 when it has none).
StampOf(a) ==
    IF a \in Identities(clients)
    THEN clients[CHOOSE i \in 1..Len(clients) : clients[i].addr = a].stamp
    ELSE 0

\* The number of bytes of sender a written to the log so far.
WrittenLen(a) == Len(Flatten(PayloadsOf(a)))

\* Sender a has pending bytes whose wait_timeout ends within the modelled
\* time.
Flushable(a) == Pending(a) # <<>> /\ StampOf(a) + wait_timeout <= MaxTime

\* C14: under fair scheduling no pending bytes stay buffered forever: again
\* and again no sender has pending bytes whose wait_timeout could have ended
\* (a non-empty buffer keeps its stamp, so the buffer was emptied), and while
\* the program runs a sender without pending bytes has all its admitted
\* bytes in the log, whatever else has arrived meanwhile.
C14_EventualFlush ==
    /\ \A a \in Addrs : []<>(~Flushable(a))
    /\ [](\A a \in Addrs :
            Pending(a) = <<>> /\ pc # "aborted"
                => WrittenLen(a) = Len(admitted[a]))

\* A session was emptied by the timeout scan after datagrams of two senders
\* had come in since its first byte.
C14_Witness ==
    /\ pc = "draining"
    /\ nrecv = MaxDatagrams
    /\ nsenders >= 2
    /\ log # <<>>
    /\ LET r == log[Len(log)]
       IN  /\ r.forced
           /\ now - r.time >= wait_timeout
           /\ Len(r.data) <= wbuf_size
           /\ r.addr_str = AddrStr(AddrSeq[1])
           /\ Pending(AddrSeq[1]) = <<>>
           /\ WrittenLen(AddrSeq[1]) = Len(admitted[AddrSeq[1]])

====
